---- MODULE Spec2Model ----
(***************************************************************************)
(* Model of the generic EM driver (ssm/inference/em.py) and of the HMM     *)
(* M-step (ssm/hmm/models.py) of ssm-jax-refactor.                         *)
(*                                                                         *)
(* A parameter record is identified by the number of M-steps that produced *)
(* it from the record the model held when em was called (record 0).  The   *)
(* model and the data are deterministic: `world' gives, for each parameter *)
(* record, what evaluating the model under that record does (the batch     *)
(* marginal log-likelihood it yields, or the step that raises).  A         *)
(* log-likelihood is a pair <<kind, value>> with kind "fin", "nan", "inf". *)
(***************************************************************************)
EXTENDS Integers, Sequences, FiniteSets

\* ---------------------------------------------------------------- bounds
MaxIters == 4          \* num_iters ranges over 0..MaxIters
MaxLP    == 2          \* finite log-likelihoods range over 0..MaxLP
MaxTol   == 2          \* tol ranges over 1..MaxTol
MaxStates == 2         \* num_states ranges over 1..MaxStates
MaxWeight == 2         \* unnormalised probabilities range over 1..MaxWeight
MaxSeqLen == 2         \* sequence lengths range over 1..MaxSeqLen
MaxCoef == 2           \* the scalar LDS parameters range over 1..MaxCoef
MaxLDSLen == 3         \* LDS sequence lengths range over 1..MaxLDSLen
MaxFits == 3           \* at most this many parameter updates through fit
MaxEmissionSteps == 3  \* at most this many M-steps of an emissions component
MaxGroups == 2         \* a factorial model has 1..MaxGroups groups of states
MaxTiltLen == 3        \* tilt datasets have 2..MaxTiltLen observations

\* ---------------------------------------------------------------- Verbosity
OFF   == 0
DEBUG == 3
Verbosities == OFF..DEBUG

VARIABLES
    num_iters,      \* em argument
    tol,            \* em argument
    verbosity,      \* em argument
    world,          \* the model and data: outcome of evaluating the model under each parameter record
    model_params,   \* model._parameters
    parameters,     \* em local `parameters`
    posterior,      \* em local `posterior`: <<>> while unbound, else <<record it was computed under>>
    log_probs,      \* em local `log_probs`
    pbar,           \* number of indices already drawn from the iterator `pbar`
    pc,             \* "loop", "break", "exhausted", "returned", "raised"
    ret,            \* what the caller of em receives
    last_lp,        \* the lp computed by the most recent update
    estep_count,    \* number of e_step calls made by this em call
    mstep_count,    \* number of m_step calls made by this em call
    warnings,       \* loop indices for which warnings.warn was called
    consumed,       \* one entry per m_step call: the posterior made by that iteration's e_step and the one passed to m_step
    direct_writes,  \* number of executions of `model._parameters = ...` by em outside the inject scope
    first,          \* <<>>, or <<outcome of the previous em call on the same model and data>>
    hmm_class,      \* class of the HMM object: "HMM", "GaussianHMM" or "PoissonHMM"
    _initial_distribution,     \* HMM field
    _transition_distribution,  \* HMM field
    _emission_distribution,    \* HMM field
    hmm_call,       \* <<>>, or <<the fields before the last HMM.m_step call, its posteriors and its exception>>
    num_states,         \* HMM.num_states
    initial_logits,     \* HMM._initial_distribution.logits_parameter()
    transition_logits,  \* HMM._transition_distribution.logits_parameter()
    log_likelihoods,    \* log-likelihood of each observation of the data under each state
    e_calls,            \* the last two e_step calls, latest last: the logits they ran under and their posterior
    api_call,           \* <<>>, or <<the last call of natural_parameters, transition_log_probs or
                        \*           marginal_likelihood, with its argument and its result>>
    lds_params,     \* the parameters of a GaussianLDS with one latent and one observed dimension
    lds_data,       \* the data of the GaussianLDS
    lds_call,       \* <<>>, or <<the result of the last GaussianLDS.natural_parameters(lds_data)>>
    fit_class,      \* the class of the model fit is called on
    fit_params,     \* its parameters: the number of updates since construction
    fit_call,       \* <<>>, or <<the last fit call: its arguments, the parameters at entry,
                    \*           the steps it ran and its exception>>
    ctor_call,      \* <<>>, or <<the last constructor call: its class, arguments and exception>>
    extracted,      \* whether natural parameters were extracted from the constructed model
    emis_class,         \* class of an LDS emissions component
    emis_distribution,  \* its _distribution: the M-steps that produced it, oldest first
    emis_call,          \* <<>>, or <<the last m_step call on it: rng, steps run, exception>>
    tw_shape,       \* GaussianTWARHMM: num_discrete_states and dataset.shape[:2]
    tw_emissions,   \* its _emissions: the number of emissions M-steps since construction
    tw_call,        \* <<>>, or <<the last initialize call: method, assignments, exception>>
    nfe,            \* <<>>, or <<a NormalFactorialEmissions object>>
    nfe_flat,       \* <<>>, or <<the (children, aux_data) of its last tree_flatten()>>
    nfe_round,      \* <<>>, or <<the object made by tree_unflatten from nfe_flat>>
    covariates,     \* the per-step covariates given to GaussianCTLDS.e_step
    ct_call,        \* <<>>, or <<the result of the last GaussianCTLDS.e_step(lds_data, covariates)>>
    tilt_dataset,   \* the dataset given to LdsSingleWindowTilt._tilt_output_generator
    tilt_call       \* <<>>, or <<the last call of it: t and the window produced>>

emvars == <<num_iters, tol, verbosity, world, model_params, parameters, posterior,
            log_probs, pbar, pc, ret, last_lp, estep_count, mstep_count, warnings,
            consumed, direct_writes, first>>

hmmvars == <<hmm_class, _initial_distribution, _transition_distribution,
             _emission_distribution, hmm_call>>

infvars == <<num_states, initial_logits, transition_logits, log_likelihoods,
             e_calls, api_call>>

ldsvars == <<lds_params, lds_data, lds_call>>

fitvars == <<fit_class, fit_params, fit_call>>

ctorvars == <<ctor_call, extracted>>

emisvars == <<emis_class, emis_distribution, emis_call>>

twvars == <<tw_shape, tw_emissions, tw_call>>

nfevars == <<nfe, nfe_flat, nfe_round>>

ctvars == <<covariates, ct_call>>

tiltvars == <<tilt_dataset, tilt_call>>

morevars == <<ctorvars, emisvars, twvars, nfevars, ctvars, tiltvars>>

auxvars == <<infvars, ldsvars, fitvars, morevars>>

vars == <<emvars, hmmvars, auxvars>>

\* ---------------------------------------------------------------- values
Params   == 0..MaxIters
Unknown  == <<"unknown", 0>>
NoLP     == <<"none", 0>>
FiniteLPs == {<<"fin", v>> : v \in 0..MaxLP}
Outcomes == FiniteLPs \cup {<<"nan", 0>>, <<"inf", 0>>,
                            <<"e_raise", 0>>, <<"ml_raise", 0>>, <<"m_raise", 0>>}

Abs(x) == IF x < 0 THEN -x ELSE x
Last(s) == s[Len(s)]
Prev(s) == s[Len(s) - 1]

\* np.isfinite(lp)
IsFiniteNanOnly(lp) == lp[1] # "nan"
IsFinite(lp) == lp[1] = "fin"

\* ---------------------------------------------------------------- model contract
\* model.inject(parameters): entry swaps the record in, exit swaps the saved record back
InjectEnter(m, p) == [model |-> p, saved |-> m]
InjectExit(scope) == scope.saved

\* model.m_step(...) evaluated on a model holding record p: the next record
m_step(p) == p + 1

\* em.update(parameters), on a model holding record m, in world w.
\* Result: the model's record after the scope, the values bound by
\* `parameters, posterior, lp = update(parameters)` and the exception, if any.
updateNoRestoreOnError(m, p, w) ==
    LET scope == InjectEnter(m, p)
        o     == w[scope.model]
        exc   == IF o[1] \in {"e_raise", "ml_raise", "m_raise"} THEN o[1] ELSE "none"
    IN  [model      |-> IF exc = "none" THEN InjectExit(scope) ELSE scope.model,
         parameters |-> IF exc = "none" THEN m_step(scope.model) ELSE p,
         posterior  |-> IF exc = "none" THEN <<scope.model>> ELSE <<>>,
         lp         |-> IF exc = "none" THEN o ELSE NoLP,
         exc        |-> exc,
         made       |-> <<scope.model>>,
         used       |-> <<scope.model>>,
         esteps     |-> 1,
         msteps     |-> IF exc \in {"e_raise", "ml_raise"} THEN 0 ELSE 1]

updateWritesModel(m, p, w) ==
    LET scope == InjectEnter(m, p)
        o     == w[scope.model]
        exc   == IF o[1] \in {"e_raise", "ml_raise", "m_raise"} THEN o[1] ELSE "none"
    IN  [model      |-> IF exc = "none" THEN m_step(scope.model) ELSE InjectExit(scope),
         parameters |-> IF exc = "none" THEN m_step(scope.model) ELSE p,
         posterior  |-> IF exc = "none" THEN <<scope.model>> ELSE <<>>,
         lp         |-> IF exc = "none" THEN o ELSE NoLP,
         exc        |-> exc,
         made       |-> <<scope.model>>,
         used       |-> <<scope.model>>,
         esteps     |-> 1,
         msteps     |-> IF exc \in {"e_raise", "ml_raise"} THEN 0 ELSE 1]

updateStalePosterior(m, p, w) ==
    LET scope == InjectEnter(m, p)
        o     == w[scope.model]
        exc   == IF o[1] \in {"e_raise", "ml_raise", "m_raise"} THEN o[1] ELSE "none"
    IN  [model      |-> InjectExit(scope),
         parameters |-> IF exc = "none" THEN m_step(scope.model) ELSE p,
         posterior  |-> IF exc = "none" THEN <<scope.model>> ELSE <<>>,
         lp         |-> IF exc = "none" THEN o ELSE NoLP,
         exc        |-> exc,
         made       |-> <<scope.model>>,
         used       |-> <<scope.saved>>,
         esteps     |-> 1,
         msteps     |-> IF exc \in {"e_raise", "ml_raise"} THEN 0 ELSE 1]

updatePosteriorAfterMStep(m, p, w) ==
    LET scope == InjectEnter(m, p)
        o     == w[scope.model]
        exc   == IF o[1] \in {"e_raise", "ml_raise", "m_raise"} THEN o[1] ELSE "none"
    IN  [model      |-> InjectExit(scope),
         parameters |-> IF exc = "none" THEN m_step(scope.model) ELSE p,
         posterior  |-> IF exc = "none" THEN <<m_step(scope.model)>> ELSE <<>>,
         lp         |-> IF exc = "none" THEN o ELSE NoLP,
         exc        |-> exc,
         made       |-> <<scope.model>>,
         used       |-> <<scope.model>>,
         esteps     |-> 1,
         msteps     |-> IF exc \in {"e_raise", "ml_raise"} THEN 0 ELSE 1]

update(m, p, w) ==
    LET scope == InjectEnter(m, p)
        o     == w[scope.model]
        exc   == IF o[1] \in {"e_raise", "ml_raise", "m_raise"} THEN o[1] ELSE "none"
    IN  [model      |-> InjectExit(scope),
         parameters |-> IF exc = "none" THEN m_step(scope.model) ELSE p,
         posterior  |-> IF exc = "none" THEN <<scope.model>> ELSE <<>>,
         lp         |-> IF exc = "none" THEN o ELSE NoLP,
         exc        |-> exc,
         made       |-> <<scope.model>>,
         used       |-> <<scope.model>>,
         esteps     |-> 1,
         msteps     |-> IF exc \in {"e_raise", "ml_raise"} THEN 0 ELSE 1]

\* `if itr > 1: if log_probs[-1] < log_probs[-2]: pass`
\* Result: whether a warning is emitted and whether an error is raised.
Decreased(itr, lps) == itr > 1 /\ Last(lps)[2] < Prev(lps)[2]
DecreaseCheckRaises(itr, lps) == [warn |-> FALSE, raise |-> Decreased(itr, lps)]
DecreaseCheck(itr, lps) == [warn |-> FALSE, raise |-> FALSE]

\* `if itr > 1: ... if abs(log_probs[-1] - log_probs[-2]) < tol and verbosity > Verbosity.OFF: break`
ConvergenceBreakFromSecond(itr, lps, t, v) ==
    /\ itr > 0
    /\ Abs(Last(lps)[2] - Prev(lps)[2]) < t
    /\ v > OFF

ConvergenceBreak(itr, lps, t, v) ==
    /\ itr > 1
    /\ Abs(Last(lps)[2] - Prev(lps)[2]) < t
    /\ v > OFF

\* `for itr in pbar:` over ssm_pbar(num_iters, ...): with `drawn` indices already
\* drawn, the loop body runs again iff an index is left.
ForNextOneMore(drawn, n) == IF drawn < n + 1 THEN "loop" ELSE "exhausted"
ForNext(drawn, n) == IF drawn < n THEN "loop" ELSE "exhausted"

NoRet == [kind |-> "none", exc |-> "none", value |-> <<>>]
Raise(e) == [kind |-> "raise", exc |-> e, value |-> <<>>]
Return(lps, m, post) ==
    [kind |-> "return", exc |-> "none",
     value |-> <<[log_probs |-> lps, model |-> m, posterior |-> post]>>]

\* ---------------------------------------------------------------- HMM (ssm/hmm/models.py)
\* Two states.  Expected counts and concentrations are in tenths; a categorical
\* distribution is its probability vector as a pair of integers in lowest terms.
PriorConcentration == 11

RECURSIVE Gcd(_, _)
Gcd(a, b) == IF b = 0 THEN a ELSE Gcd(b, a % b)

\* a probability vector proportional to w
Probs(w) == LET g == Gcd(w[1], w[2]) IN <<w[1] \div g, w[2] \div g>>

\* tfp.distributions.Dirichlet(concentration).mode(): proportional to concentration - 1 (10 tenths)
DirichletMode(concentration) == Probs(<<concentration[1] - 10, concentration[2] - 10>>)

HMMClasses == {"HMM", "GaussianHMM", "PoissonHMM"}
ExpectedStates0 == {<<10, 0>>, <<0, 10>>, <<5, 5>>}
ExpectedTransitions == {<< <<10, 0>>, <<0, 10>> >>, << <<5, 5>>, <<5, 5>> >>, << <<0, 10>>, <<5, 0>> >>}
Posteriors == [expected_states0 : ExpectedStates0, expected_transitions : ExpectedTransitions]

\* stats = sum(expected_states[:, 0, :]) + prior.concentration; Categorical(probs=Dirichlet(stats).mode())
NewInitialDistribution(posteriors) ==
    DirichletMode(<<posteriors.expected_states0[1] + PriorConcentration,
                    posteriors.expected_states0[2] + PriorConcentration>>)

\* stats = sum(expected_transitions) + prior.concentration; row-wise Dirichlet mode
NewTransitionDistribution(posteriors) ==
    [i \in 1..2 |->
        DirichletMode(<<posteriors.expected_transitions[i][1] + PriorConcentration,
                        posteriors.expected_transitions[i][2] + PriorConcentration>>)]

\* _m_step_emission_distribution: the base class raises NotImplementedError; the
\* subclasses fit the emissions to the data weighted by the posteriors, which raises
\* when the shapes of the dataset and of the posteriors do not match.
EmissionRaises(class, shapes_match) ==
    IF class = "HMM" THEN "NotImplementedError"
    ELSE IF ~shapes_match THEN "TypeError"
    ELSE "none"
NewEmissionDistribution(class, posteriors) == <<class, posteriors>>

InitialEmission == <<"initial">>

HMMIdle ==
    /\ hmm_class = "HMM"
    /\ _initial_distribution = <<1, 1>>
    /\ _transition_distribution = << <<1, 1>>, <<1, 1>> >>
    /\ _emission_distribution = InitialEmission
    /\ hmm_call = <<>>

\* ---------------------------------------------------------------- discrete inference
\* A log-probability x is represented by the non-negative rational exp(x), a pair
\* <<numerator, denominator>> in lowest terms; arithmetic is exact.
R(n, d) == LET g == Gcd(n, d) IN <<n \div g, d \div g>>
\* operands are in lowest terms; common factors are removed before multiplying
RAdd(a, b) ==
    LET g == Gcd(a[2], b[2]) IN
    R(a[1] * (b[2] \div g) + b[1] * (a[2] \div g), (a[2] \div g) * b[2])
RMul(a, b) ==
    LET g1 == Gcd(a[1], b[2])
        g2 == Gcd(b[1], a[2])
    IN  R((a[1] \div g1) * (b[1] \div g2), (a[2] \div g2) * (b[2] \div g1))
RDiv(a, b) == RMul(a, <<b[2], b[1]>>)
Zero == R(0, 1)
One == R(1, 1)

\* jnp.array(...): the array with the given entries, all of them computed
Array(f) == f \o <<>>

RECURSIVE RSumTo(_, _)
RSumTo(s, n) == IF n = 0 THEN Zero ELSE RAdd(RSumTo(s, n - 1), s[n])

\* sum over all entries of a vector
RSum(s) == RSumTo(s, Len(s))

\* logsumexp(x), x + y and x - y of log-probabilities
logsumexp(x) == RSum(x)
LogPlus(x, y) == RMul(x, y)
LogMinus(x, y) == RDiv(x, y)

\* tfp.distributions.Categorical(logits=log(w)).logits_parameter(): the logits as given
CategoricalLogits(w) == Array([k \in 1..Len(w) |-> R(w[k], 1)])

\* tfp.distributions.Categorical(probs=w / sum(w)).logits_parameter(): log of the probabilities
CategoricalProbs(w) ==
    LET tot == RSum(Array([k \in 1..Len(w) |-> R(w[k], 1)]))
    IN  Array([k \in 1..Len(w) |-> RDiv(R(w[k], 1), tot)])

\* the module bound to the name `spsp` in each file, and which of them has logsumexp
SpspOfModels == "jax.scipy.special"
SpspOfTransitions == "jax.scipy"
HasLogsumexp(module) == module = "jax.scipy.special"

\* log_P -= spsp.logsumexp(log_P, axis=1, keepdims=True)
NormalizeRows(log_P) ==
    LET norm == Array([i \in 1..Len(log_P) |-> logsumexp(log_P[i])])
    IN  Array([i \in 1..Len(log_P) |->
            Array([j \in 1..Len(log_P) |-> LogMinus(log_P[i][j], norm[i])])])

\* HMM.natural_parameters(data) on a model with the given logits.  `self_logits' is
\* the model's transition logits after the call: jax arrays are immutable, so `-='
\* rebinds the local name and leaves the distribution's array alone.
natural_parametersInPlace(init, trans, lls) ==
    [exc                     |-> "none",
     log_initial_state_distn |-> init,
     log_transition_matrix   |-> NormalizeRows(trans),
     log_likelihoods         |-> lls,
     self_logits             |-> NormalizeRows(trans)]

natural_parameters(init, trans, lls) ==
    [exc                     |-> IF HasLogsumexp(SpspOfModels) THEN "none" ELSE "AttributeError",
     log_initial_state_distn |-> init,
     log_transition_matrix   |-> NormalizeRows(trans),
     log_likelihoods         |-> lls,
     self_logits             |-> trans]

\* StationaryTransitions.transition_log_probs(data)
transition_log_probs(trans) ==
    IF HasLogsumexp(SpspOfTransitions)
    THEN [exc |-> "none", value |-> <<NormalizeRows(trans)>>, self_logits |-> trans]
    ELSE [exc |-> "AttributeError", value |-> <<>>, self_logits |-> trans]

\* forward messages: alpha_1 = log pi + log L_1,
\* alpha_t = logsumexp_i(alpha_{t-1,i} + log A_{i,.}) + log L_t
Forward(log_pi, log_A, log_L) ==
    LET K == Len(log_pi)
        T == Len(log_L)
        alpha[t \in 1..T] ==
            IF t = 1
            THEN Array([k \in 1..K |-> LogPlus(log_pi[k], log_L[1][k])])
            ELSE LET prev == alpha[t - 1] IN
                 Array([k \in 1..K |->
                    LogPlus(logsumexp(Array([i \in 1..K |-> LogPlus(prev[i], log_A[i][k])])),
                            log_L[t][k])])
    IN  Array(alpha)

\* backward messages: beta_T = 0,
\* beta_t = logsumexp_j(log A_{.,j} + log L_{t+1,j} + beta_{t+1,j})
Backward(log_A, log_L) ==
    LET K == Len(log_A)
        T == Len(log_L)
        beta[t \in 1..T] ==
            IF t = T
            THEN Array([k \in 1..K |-> One])
            ELSE LET next == beta[t + 1] IN
                 Array([i \in 1..K |->
                    logsumexp(Array([j \in 1..K |->
                        LogPlus(log_A[i][j], LogPlus(log_L[t + 1][j], next[j]))]))])
    IN  Array(beta)

\* softmax of a vector of log-weights, as probabilities
Softmax(x) == LET tot == logsumexp(x) IN Array([k \in 1..Len(x) |-> LogMinus(x[k], tot)])

\* hmm_expected_states(log_pi, log_A, log_L): the marginal log-likelihood, the
\* expected occupancy (T x K) and the expected transitions ((T-1) x K x K)
hmm_expected_states(log_pi, log_A, log_L) ==
    LET K == Len(log_pi)
        T == Len(log_L)
        alpha == Forward(log_pi, log_A, log_L)
        beta == Backward(log_A, log_L)
        Ez == Array([t \in 1..T |->
                Softmax(Array([k \in 1..K |-> LogPlus(alpha[t][k], beta[t][k])]))])
        Joint == Array([t \in 1..(T - 1) |-> Array([i \in 1..K |-> Array([j \in 1..K |->
                        LogPlus(LogPlus(alpha[t][i], log_A[i][j]),
                                LogPlus(log_L[t + 1][j], beta[t + 1][j]))])])])
        Total == Array([t \in 1..(T - 1) |->
                    logsumexp(Array([i \in 1..K |-> logsumexp(Joint[t][i])]))])
        Ezzp1 == Array([t \in 1..(T - 1) |->
                    Array([i \in 1..K |->
                        Array([j \in 1..K |-> LogMinus(Joint[t][i][j], Total[t])])])])
    IN  [marginal_likelihood |-> logsumexp(alpha[T]), Ez0 |-> Ez[1], Ezzp1 |-> Ezzp1, Ez |-> Ez]

\* HMMPosterior(marginal_likelihood, expected_states, expected_transitions)
HMMPosterior(ml, Ez, Ezzp1) ==
    [marginal_likelihood |-> ml, expected_states |-> Ez, expected_transitions |-> Ezzp1]

\* HMM.infer_posterior(dataset) for a dataset of one sequence
infer_posteriorSwapped(nat) ==
    LET es == hmm_expected_states(nat.log_initial_state_distn, nat.log_transition_matrix,
                                  nat.log_likelihoods)
    IN  HMMPosterior(es.marginal_likelihood, es.Ezzp1, es.Ez)

infer_posterior(nat) ==
    LET es == hmm_expected_states(nat.log_initial_state_distn, nat.log_transition_matrix,
                                  nat.log_likelihoods)
    IN  HMMPosterior(es.marginal_likelihood, es.Ez, es.Ezzp1)

\* HMM.marginal_likelihood(dataset, posterior): `given' is <<>> for posterior=None,
\* else <<posterior>>; nat is natural_parameters of the model as it is now
marginal_likelihoodRecomputes(given, nat) == infer_posterior(nat).marginal_likelihood

marginal_likelihood(given, nat) ==
    LET post == IF given = <<>> THEN infer_posterior(nat) ELSE given[1]
    IN  post.marginal_likelihood

InfIdle ==
    /\ num_states = 1
    /\ initial_logits = <<One>>
    /\ transition_logits = << <<One>> >>
    /\ log_likelihoods = << <<One>> >>
    /\ e_calls = <<>>
    /\ api_call = <<>>

\* ---------------------------------------------------------------- GaussianLDS.natural_parameters
\* One latent and one observed dimension: every matrix is a number.  The noise
\* covariances Q1, Q, R are held by their inverses, so inv(Q1) is Q1inv and
\* solve(Q, x) is Qinv * x.
LDSParams ==
    [m1 : {0, 1}, Q1inv : 1..MaxCoef, A : 1..MaxCoef, b : {0, 1},
     Qinv : 1..MaxCoef, C : 1..MaxCoef, d : {0, 1}, Rinv : 1..MaxCoef]

LDSObservations == {0, 1}

\* np.tile(x[None], (n, 1, 1))
Tile(x, n) == Array([t \in 1..n |-> x])

\* arr.at[idx].add(v) for a set idx of positions
AtAdd(arr, idx, v) == Array([t \in 1..Len(arr) |-> IF t \in idx THEN arr[t] + v ELSE arr[t]])

\* arr.at[0].add(v)
AtFirst(arr, v) == AtAdd(arr, {1}, v)

\* arr.at[:-1].add(v)
AtAllButLastWhole(arr, v) == AtAdd(arr, 1..Len(arr), v)

AtAllButLast(arr, v) == AtAdd(arr, 1..(Len(arr) - 1), v)

\* arr.at[1:].add(v)
AtFromSecond(arr, v) == AtAdd(arr, 2..Len(arr), v)

GaussianLDS_natural_parameters(p, data) ==
    LET seq_len == Len(data)
        J_obs == Tile(p.C * p.Rinv * p.C, seq_len)
        J_init == AtFirst(J_obs, p.Q1inv)
        J_out == AtAllButLast(J_init, p.A * p.Qinv * p.A)
        J_diag == AtFromSecond(J_out, p.Qinv)
        J_lower_diag == Tile(0 - p.Qinv * p.A, seq_len - 1)
        h_obs == Array([t \in 1..seq_len |-> (data[t] - p.d) * p.Rinv * p.C])
        h_init == AtFirst(h_obs, p.Q1inv * p.m1)
        h_out == AtAllButLast(h_init, 0 - p.A * p.Qinv * p.b)
        h == AtFromSecond(h_out, p.Qinv * p.b)
    IN  [J_diag |-> J_diag, J_lower_diag |-> J_lower_diag, h |-> h]

LDSIdle ==
    /\ lds_params = [m1 |-> 0, Q1inv |-> 1, A |-> 1, b |-> 0, Qinv |-> 1, C |-> 1, d |-> 0, Rinv |-> 1]
    /\ lds_data = <<>>
    /\ lds_call = <<>>

\* ---------------------------------------------------------------- fit
LDSClasses == {"GaussianLDS", "GaussianCTLDS"}
FitClasses == HMMClasses \cup LDSClasses
Methods == {"em", "laplace_em", "bogus"}
Keys == {"None", "key"}
InitializationMethods == {"None", "kmeans", "random"}

\* the methods each fit accepts
Recognized(class) == IF class \in HMMClasses THEN {"em"} ELSE {"em", "laplace_em"}

\* em(model, dataset, **kwargs) seen from fit: E-steps and M-steps run and the
\* model's parameters are replaced; on the base HMM the M-step of the emissions
\* raises and the injection scope restores the parameters
em_from_fit(class, params, steps) ==
    IF EmissionRaises(class, TRUE) # "none"
    THEN [params |-> params, steps |-> steps \o <<"e_step", "m_step">>,
          exc |-> EmissionRaises(class, TRUE)]
    ELSE [params |-> params + 1, steps |-> steps \o <<"e_step", "m_step">>, exc |-> "none"]

\* HMM.initialize(dataset, key, method): state assignments, then one M-step of
\* the emissions on the model itself
initialize(class, params, key, method) ==
    IF method = "random" /\ key = "None"
    THEN [params |-> params, steps |-> <<"initialize">>, exc |-> "TypeError"]
    ELSE IF EmissionRaises(class, TRUE) # "none"
    THEN [params |-> params, steps |-> <<"initialize", "m_step">>,
          exc |-> EmissionRaises(class, TRUE)]
    ELSE [params |-> params + 1, steps |-> <<"initialize", "m_step">>, exc |-> "none"]

HMM_fit(class, params, method, key, initialization_method) ==
    LET init == IF initialization_method # "None"
                THEN initialize(class, params, key, initialization_method)
                ELSE [params |-> params, steps |-> <<>>, exc |-> "none"]
    IN  IF init.exc # "none" THEN init
        ELSE IF method = "em" THEN em_from_fit(class, init.params, init.steps)
        ELSE [params |-> init.params, steps |-> init.steps, exc |-> "ValueError"]

GaussianLDS_fit(class, params, method, rng) ==
    IF method = "em" THEN em_from_fit(class, params, <<>>)
    ELSE IF method = "laplace_em"
    THEN IF rng = "None"
         THEN [params |-> params, steps |-> <<>>, exc |-> "ValueError"]
         ELSE [params |-> params + 1, steps |-> <<"laplace_em">>, exc |-> "none"]
    ELSE [params |-> params, steps |-> <<>>, exc |-> "ValueError"]

GaussianCTLDS_fit(class, params, method, key) ==
    IF method = "em" THEN em_from_fit(class, params, <<>>)
    ELSE IF method = "laplace_em"
    THEN IF key = "None"
         THEN [params |-> params, steps |-> <<>>, exc |-> "ValueError"]
         ELSE [params |-> params, steps |-> <<>>, exc |-> "NotImplementedError"]
    ELSE [params |-> params, steps |-> <<>>, exc |-> "ValueError"]

FitIdle ==
    /\ fit_class = "HMM"
    /\ fit_params = 0
    /\ fit_call = <<>>

\* ---------------------------------------------------------------- components not in use
CtorIdle == ctor_call = <<>> /\ extracted = FALSE

EmisIdle == emis_class = "Emissions" /\ emis_distribution = <<>> /\ emis_call = <<>>

TwIdle ==
    /\ tw_shape = [num_discrete_states |-> 1, num_batches |-> 1, num_timesteps |-> 1]
    /\ tw_emissions = 0
    /\ tw_call = <<>>

NfeIdle == nfe = <<>> /\ nfe_flat = <<>> /\ nfe_round = <<>>

CtIdle == covariates = <<>> /\ ct_call = <<>>

TiltIdle == tilt_dataset = <<>> /\ tilt_call = <<>>

MoreIdle == CtorIdle /\ EmisIdle /\ TwIdle /\ NfeIdle /\ CtIdle /\ TiltIdle

AuxIdle == InfIdle /\ LDSIdle /\ FitIdle /\ MoreIdle

\* ---------------------------------------------------------------- em
\* State at the loop header of a call em(model, data, num_iters=n, tol=t, verbosity=v)
\* on a model holding record m.
EnterEm(n, m) ==
    /\ parameters = m
    /\ posterior = <<>>
    /\ log_probs = <<>>
    /\ pbar = 0
    /\ pc = ForNext(0, n)
    /\ ret = NoRet
    /\ last_lp = NoLP
    /\ estep_count = 0
    /\ mstep_count = 0
    /\ warnings = {}
    /\ consumed = <<>>
    /\ direct_writes = 0

\* no em call under study: a call with num_iters = 0 that is never run
EmIdle ==
    /\ num_iters = 0
    /\ tol = 1
    /\ verbosity = OFF
    /\ world = [p \in Params |-> Unknown]
    /\ model_params = 0
    /\ first = <<>>
    /\ EnterEm(num_iters, model_params)

Init ==
    /\ num_iters \in 0..MaxIters
    /\ tol \in 1..MaxTol
    /\ verbosity \in Verbosities
    /\ world = [p \in Params |-> Unknown]
    /\ model_params = 0
    /\ first = <<>>
    /\ EnterEm(num_iters, model_params)
    /\ HMMIdle
    /\ AuxIdle

\* One pass through the body of `for itr in pbar:`
Iterate ==
    /\ pc = "loop"
    /\ \E o \in Outcomes :
        LET itr == pbar
            k   == InjectEnter(model_params, parameters).model
            w   == [world EXCEPT ![k] = o]
            u   == update(model_params, parameters, w)
            lps == Append(log_probs, u.lp)
            dec == DecreaseCheck(itr, lps)
            brk == ConvergenceBreak(itr, lps, tol, verbosity)
        IN  /\ world[k] # Unknown => o = world[k]
            /\ world' = w
            /\ pbar' = pbar + 1
            /\ model_params' = u.model
            /\ estep_count' = estep_count + u.esteps
            /\ mstep_count' = mstep_count + u.msteps
            /\ last_lp' = u.lp
            /\ consumed' = IF u.msteps = 1
                           THEN Append(consumed, [itr |-> itr, made |-> u.made, used |-> u.used])
                           ELSE consumed
            /\ IF u.exc # "none"
               THEN /\ pc' = "raised"
                    /\ ret' = Raise(u.exc)
                    /\ UNCHANGED <<parameters, posterior, log_probs, warnings>>
               ELSE /\ parameters' = u.parameters
                    /\ posterior' = u.posterior
                    /\ IF ~IsFinite(u.lp)
                       THEN /\ pc' = "raised"
                            /\ ret' = Raise("AssertionError")
                            /\ UNCHANGED <<log_probs, warnings>>
                       ELSE /\ log_probs' = lps
                            /\ warnings' = IF dec.warn THEN warnings \cup {itr} ELSE warnings
                            /\ IF dec.raise
                               THEN pc' = "raised" /\ ret' = Raise("UserWarning")
                               ELSE /\ ret' = ret
                                    /\ pc' = IF brk THEN "break"
                                             ELSE ForNext(pbar + 1, num_iters)
    /\ UNCHANGED <<num_iters, tol, verbosity, direct_writes, first, hmmvars, auxvars>>

\* `model._parameters = parameters` and `return np.array(log_probs), model, posterior`
FinishWithoutWrite ==
    /\ pc \in {"break", "exhausted"}
    /\ IF posterior = <<>>
       THEN pc' = "raised" /\ ret' = Raise("UnboundLocalError")
       ELSE pc' = "returned" /\ ret' = Return(log_probs, parameters, posterior)
    /\ UNCHANGED <<num_iters, tol, verbosity, world, model_params, parameters, posterior,
                   log_probs, pbar, last_lp, estep_count, mstep_count, warnings, consumed,
                   direct_writes, first, hmmvars, auxvars>>

Finish ==
    /\ pc \in {"break", "exhausted"}
    /\ model_params' = parameters
    /\ direct_writes' = direct_writes + 1
    /\ IF posterior = <<>>
       THEN pc' = "raised" /\ ret' = Raise("UnboundLocalError")
       ELSE pc' = "returned" /\ ret' = Return(log_probs, parameters, posterior)
    /\ UNCHANGED <<num_iters, tol, verbosity, world, parameters, posterior, log_probs,
                   pbar, last_lp, estep_count, mstep_count, warnings, consumed, first,
                   hmmvars, auxvars>>

Next == Iterate \/ Finish

Spec == Init /\ [][Next]_vars

\* A second call of em on an identical model (same parameter record as at the first
\* call's entry), same data, num_iters and tol, with another verbosity.
Rerun ==
    /\ pc \in {"returned", "raised"}
    /\ first = <<>>
    /\ \E v \in Verbosities \ {verbosity} : verbosity' = v
    /\ first' = <<[ret |-> ret, model |-> model_params, iters |-> pbar]>>
    /\ model_params' = 0
    /\ parameters' = 0
    /\ posterior' = <<>>
    /\ log_probs' = <<>>
    /\ pbar' = 0
    /\ pc' = ForNext(0, num_iters)
    /\ ret' = NoRet
    /\ last_lp' = NoLP
    /\ estep_count' = 0
    /\ mstep_count' = 0
    /\ warnings' = {}
    /\ consumed' = <<>>
    /\ direct_writes' = 0
    /\ UNCHANGED <<num_iters, tol, world, hmmvars, auxvars>>

NextPair == Iterate \/ Finish \/ Rerun

SpecPair == Init /\ [][NextPair]_vars

\* The state at the loop header of a new call em(model, data, num_iters=n, ...) on a
\* model holding record m, as the next state.
CallEm(n, m) ==
    /\ num_iters' = n
    /\ model_params' = m
    /\ parameters' = m
    /\ posterior' = <<>>
    /\ log_probs' = <<>>
    /\ pbar' = 0
    /\ pc' = ForNext(0, n)
    /\ ret' = NoRet
    /\ last_lp' = NoLP
    /\ estep_count' = 0
    /\ mstep_count' = 0
    /\ warnings' = {}
    /\ consumed' = <<>>
    /\ direct_writes' = 0

CallOutcome == [ret |-> ret, model |-> model_params, iters |-> pbar, num_iters |-> num_iters]

\* After em(model, data, num_iters=n) has returned: em(model, data, num_iters=m) on
\* the returned model, same data, tol and verbosity.
Resume ==
    /\ pc = "returned"
    /\ first = <<>>
    /\ first' = <<CallOutcome>>
    /\ \E m \in 0..(MaxIters - num_iters) : CallEm(m, model_params)
    /\ UNCHANGED <<tol, verbosity, world, hmmvars, auxvars>>

\* After the resumed call has ended: a single call with num_iters = n + m on an
\* identical model holding the record the first call started from.
Single ==
    /\ pc \in {"returned", "raised"}
    /\ Len(first) = 1
    /\ first' = Append(first, CallOutcome)
    /\ CallEm(first[1].num_iters + num_iters, 0)
    /\ UNCHANGED <<tol, verbosity, world, hmmvars, auxvars>>

NextResume == Iterate \/ Finish \/ Resume \/ Single

SpecResume == Init /\ [][NextResume]_vars

\* The em call runs to its end: it is sequential code that nothing suspends.
SpecLive == Spec /\ WF_vars(Next)

\* ---------------------------------------------------------------- properties of em
Terminated == pc \in {"returned", "raised"}
IterStep == pbar' = pbar + 1
NonFinite(lp) == lp[1] \in {"nan", "inf"}
RaisedInScope == ret.exc \in {"e_raise", "ml_raise", "m_raise"}

\* C1 (as stated): whenever the last two recorded log-likelihoods differ by less
\* than tol, the loop has been left: no further iteration will run.
C1_ConvergedStops ==
    (Len(log_probs) >= 2 /\ Abs(Last(log_probs)[2] - Prev(log_probs)[2]) < tol)
        => pc # "loop"

\* C2 (as stated): a call with num_iters = 0 ends by returning an empty history and
\* leaves the model's parameters as they were at call entry.
C2_ZeroItersReturns ==
    (num_iters = 0 /\ Terminated)
        => (ret.kind = "return" /\ ret.value[1].log_probs = <<>> /\ model_params = 0)

\* C3: a NaN or infinite log-likelihood fails the run at that iteration: an
\* AssertionError is raised, the value is not appended to the history, and no
\* E-step or M-step runs afterwards.
C3_NonFiniteIsFatal ==
    /\ [](NonFinite(last_lp) =>
            /\ pc = "raised"
            /\ ret = Raise("AssertionError")
            /\ \A i \in 1..Len(log_probs) : log_probs[i][1] = "fin")
    /\ [][NonFinite(last_lp) =>
            (estep_count' = estep_count /\ mstep_count' = mstep_count)]_vars

C3_Witness == NonFinite(last_lp) /\ pc = "raised" /\ pbar >= 2 /\ Len(log_probs) = pbar - 1

\* C4 (as stated): when the run fails on a non-finite log-likelihood the caller
\* receives the history recorded before the failure.
C4_HistoryOnFailure ==
    (pc = "raised" /\ ret.exc = "AssertionError")
        => (ret.value # <<>> /\ ret.value[1].log_probs = log_probs)

\* C5: every pass through the inject scope of update, whether it ends normally
\* or by an error raised inside it, leaves model._parameters as it was before.
C5_ScopeRestores == [][IterStep => model_params' = model_params]_vars

C5_Witness ==
    /\ pc = "raised"
    /\ RaisedInScope
    /\ parameters # model_params
    /\ model_params = 0

C8_DecreaseNotFatal ==
    [][(/\ IterStep
        /\ Len(log_probs') = Len(log_probs) + 1
        /\ Len(log_probs') >= 2
        /\ Last(log_probs')[2] < Prev(log_probs')[2])
       => /\ pc' # "raised"
          /\ ret' = NoRet
          /\ \/ pc' = "loop"
             \/ pc' = "break" /\ Abs(Last(log_probs')[2] - Prev(log_probs')[2]) < tol
             \/ pc' = "exhausted" /\ pbar' = num_iters]_vars

C8_Witness ==
    /\ pc = "loop"
    /\ Len(log_probs) >= 3
    /\ Last(log_probs)[2] < Prev(log_probs)[2]

\* C9 (as stated): every iteration that records a log-likelihood strictly below
\* the previous one has emitted a warning.
C9_DecreaseWarns ==
    \A i \in 2..Len(log_probs) :
        log_probs[i][2] < log_probs[i - 1][2] => (i - 1) \in warnings

\* C10 (as stated): two calls that differ only in verbosity execute the same
\* number of iterations and end with the same result and the same parameters.
C10_VerbosityIrrelevant ==
    (first # <<>> /\ Terminated)
        => /\ first[1].iters = pbar
           /\ first[1].ret = ret
           /\ first[1].model = model_params

\* C11 (as stated): whenever the single call with num_iters = n + m returns, the
\* call with n followed by the call with m on the returned model also returns,
\* has executed the same number of iterations, leaves the same parameters and
\* yields, concatenated, the same history.
C11_Resumable ==
    (Len(first) = 2 /\ Terminated /\ ret.kind = "return")
        => /\ first[2].ret.kind = "return"
           /\ first[1].iters + first[2].iters = pbar
           /\ first[2].model = model_params
           /\ first[1].ret.value[1].log_probs \o first[2].ret.value[1].log_probs
                = ret.value[1].log_probs

\* C12: every call ends; it never executes more than num_iters iterations; a
\* returned history has one entry per executed iteration, and num_iters entries
\* when the loop ended by exhausting the iterator.
C12_Terminates ==
    /\ <>Terminated
    /\ [](estep_count <= num_iters /\ pbar = estep_count)
    /\ [](ret.kind = "return" => Len(ret.value[1].log_probs) = estep_count)
    /\ [][(pc = "exhausted" /\ pc' = "returned")
            => Len(ret'.value[1].log_probs) = num_iters]_vars

C12_Witness ==
    /\ pc = "returned"
    /\ num_iters = MaxIters
    /\ Len(ret.value[1].log_probs) = num_iters
    /\ verbosity = OFF

\* C13: every m_step call receives the posterior made by the e_step of the same
\* iteration, unchanged, and no posterior is received by two m_step calls.
C13_PosteriorConsumedOnce ==
    /\ Len(consumed) = mstep_count
    /\ \A j \in 1..Len(consumed) :
        /\ consumed[j].used = consumed[j].made
        /\ \A i \in 1..Len(consumed) : i # j => consumed[i].used # consumed[j].used

C13_Witness == Len(consumed) >= 3 /\ pc = "loop"

\* The em call under study enters with the model holding record 0, so the record
\* that enters iteration i (from 0) is i and the output of the k-th M-step is k.

\* C25: the i-th history entry is the log-likelihood under the parameters that
\* entered iteration i, and the posterior em returns was computed under the
\* parameters that entered the last iteration run, which are not the
\* parameters em returns.
C25_EvaluatedBeforeMStep ==
    /\ \A i \in 1..Len(log_probs) : log_probs[i] = world[i - 1]
    /\ pc = "returned" =>
        LET v == ret.value[1] IN
        /\ v.log_probs = log_probs
        /\ Len(v.log_probs) = pbar
        /\ v.posterior = <<pbar - 1>>
        /\ v.model = pbar
        /\ v.posterior[1] # v.model

C25_Witness ==
    /\ pc = "returned"
    /\ pbar >= 3
    /\ world[pbar - 1] # world[pbar - 2]

\* C26: a run that does not fail executes at least min(num_iters, 3)
\* iterations: the convergence test is not made at loop indices 0 and 1.
C26_NoEarlyBreak ==
    pc \in {"break", "returned"} => pbar >= (IF num_iters < 3 THEN num_iters ELSE 3)

C26_Witness ==
    /\ pc = "returned"
    /\ num_iters > 3
    /\ pbar = 3
    /\ verbosity > OFF
    /\ Abs(log_probs[2][2] - log_probs[1][2]) < tol

\* C27: when em aborts inside an iteration, the model holds the parameters it
\* held at call entry: no update of an earlier iteration was written to it.
C27_AbortLeavesEntryParameters ==
    (pc = "raised" /\ pbar >= 1) => (model_params = 0 /\ direct_writes = 0)

C27_Witness ==
    /\ pc = "raised"
    /\ pbar >= 2
    /\ parameters >= 1
    /\ ret.exc \in {"AssertionError", "m_raise"}

\* C28: when em returns after k >= 1 iterations, the model it returns holds the
\* output of the k-th M-step, and that record was written to the model once,
\* after the loop.
C28_ReturnsLastMStep ==
    (pc = "returned" /\ pbar >= 1) =>
        /\ mstep_count = pbar
        /\ ret.value[1].model = pbar
        /\ model_params = ret.value[1].model
        /\ direct_writes = 1

C28_Witness ==
    /\ pc = "returned"
    /\ pbar >= 2
    /\ pbar < num_iters

\* ---------------------------------------------------------------- HMM.m_step
InitHMM ==
    /\ num_iters = 0
    /\ tol = 1
    /\ verbosity = OFF
    /\ world = [p \in Params |-> Unknown]
    /\ model_params = 0
    /\ first = <<>>
    /\ EnterEm(num_iters, model_params)
    /\ hmm_class \in HMMClasses
    /\ _initial_distribution = <<1, 1>>
    /\ _transition_distribution = << <<1, 1>>, <<1, 1>> >>
    /\ _emission_distribution = InitialEmission
    /\ hmm_call = <<>>
    /\ AuxIdle

\* HMM.m_step(dataset, posteriors)
HMM_m_step ==
    \E posteriors \in Posteriors, shapes_match \in BOOLEAN :
        LET exc == EmissionRaises(hmm_class, shapes_match) IN
        /\ _initial_distribution' = NewInitialDistribution(posteriors)
        /\ _transition_distribution' = NewTransitionDistribution(posteriors)
        /\ _emission_distribution' =
              IF exc = "none" THEN NewEmissionDistribution(hmm_class, posteriors)
              ELSE _emission_distribution
        /\ hmm_call' = <<[initial |-> _initial_distribution,
                          transition |-> _transition_distribution,
                          emission |-> _emission_distribution,
                          posteriors |-> posteriors,
                          exc |-> exc]>>
        /\ UNCHANGED <<hmm_class, emvars, auxvars>>

NextHMM == HMM_m_step

SpecHMM == InitHMM /\ [][NextHMM]_vars

\* C7 (as stated): after HMM.m_step the three distributions are either all the
\* values from before the call or all the updated values, and when the emission
\* update raised the initial and transition distributions are unchanged.
C7_WholeRecordSwap ==
    hmm_call # <<>> =>
        LET c == hmm_call[1] IN
        /\ \/ /\ _initial_distribution = c.initial
              /\ _transition_distribution = c.transition
              /\ _emission_distribution = c.emission
           \/ /\ _initial_distribution = NewInitialDistribution(c.posteriors)
              /\ _transition_distribution = NewTransitionDistribution(c.posteriors)
              /\ _emission_distribution = NewEmissionDistribution(hmm_class, c.posteriors)
        /\ c.exc # "none" =>
              /\ _initial_distribution = c.initial
              /\ _transition_distribution = c.transition

\* ---------------------------------------------------------------- HMM inference calls
Ones(K) == [k \in 1..K |-> 1]

InitInfer ==
    /\ EmIdle
    /\ HMMIdle
    /\ num_states \in 1..MaxStates
    /\ \E from_probs \in BOOLEAN, stay, up \in 1..MaxWeight :
        LET w == [k \in 1..num_states |-> IF k = 1 THEN up ELSE 1]
            W == [i \in 1..num_states |->
                    [j \in 1..num_states |-> IF i = j THEN stay ELSE IF j > i THEN up ELSE 1]]
        IN
        /\ initial_logits = IF from_probs THEN CategoricalProbs(w) ELSE CategoricalLogits(w)
        /\ transition_logits =
              [i \in 1..num_states |->
                  IF from_probs THEN CategoricalProbs(W[i]) ELSE CategoricalLogits(W[i])]
    /\ \E T \in 1..MaxSeqLen, z_head, z_last \in 1..num_states :
        \* the observations favour state z_head up to the last step, which favours z_last
        /\ T = 1 => z_head = z_last
        /\ log_likelihoods =
              Array([t \in 1..T |->
                  Array([k \in 1..num_states |->
                      IF k = (IF t = T THEN z_last ELSE z_head) THEN R(2, 1) ELSE One])])
    /\ e_calls = <<>>
    /\ api_call = <<>>
    /\ LDSIdle
    /\ FitIdle
    /\ MoreIdle

\* model.natural_parameters(data)
NaturalParametersCall ==
    LET nat == natural_parameters(initial_logits, transition_logits, log_likelihoods) IN
    /\ api_call' = <<[fn |-> "natural_parameters", exc |-> nat.exc,
                      arg |-> <<>>, raw |-> transition_logits,
                      matrix |-> IF nat.exc = "none" THEN <<nat.log_transition_matrix>> ELSE <<>>,
                      value |-> IF nat.exc = "none" THEN <<nat.log_initial_state_distn>> ELSE <<>>]>>
    /\ transition_logits' = nat.self_logits
    /\ UNCHANGED <<num_states, initial_logits, log_likelihoods, e_calls, emvars, hmmvars, ldsvars, fitvars, morevars>>

\* StationaryTransitions(num_states, transition_distribution=...).transition_log_probs(data)
TransitionLogProbsCall ==
    LET res == transition_log_probs(transition_logits) IN
    /\ api_call' = <<[fn |-> "transition_log_probs", exc |-> res.exc,
                      arg |-> <<>>, raw |-> transition_logits,
                      matrix |-> res.value, value |-> res.value]>>
    /\ transition_logits' = res.self_logits
    /\ UNCHANGED <<num_states, initial_logits, log_likelihoods, e_calls, emvars, hmmvars, ldsvars, fitvars, morevars>>

\* model.e_step(dataset)
EStepCall ==
    LET nat  == natural_parameters(initial_logits, transition_logits, log_likelihoods)
        call == [initial |-> initial_logits, transition |-> transition_logits,
                 data |-> log_likelihoods, posterior |-> infer_posterior(nat)]
    IN
    /\ e_calls' = IF e_calls = <<>> THEN <<call>> ELSE <<Last(e_calls), call>>
    /\ transition_logits' = nat.self_logits
    /\ UNCHANGED <<num_states, initial_logits, log_likelihoods, api_call, emvars, hmmvars, ldsvars, fitvars, morevars>>

\* model.marginal_likelihood(dataset, posterior), with the posterior of the last
\* e_step call or with posterior=None
MarginalLikelihoodCall ==
    \E given \in BOOLEAN :
        LET nat == natural_parameters(initial_logits, transition_logits, log_likelihoods)
            arg == IF given THEN <<Last(e_calls)>> ELSE <<>>
            val == marginal_likelihood(IF given THEN <<Last(e_calls).posterior>> ELSE <<>>, nat)
        IN
        /\ given => e_calls # <<>>
        /\ api_call' = <<[fn |-> "marginal_likelihood", exc |-> "none",
                          arg |-> arg, raw |-> transition_logits,
                          matrix |-> <<>>, value |-> <<val>>]>>
        /\ transition_logits' = IF given THEN transition_logits ELSE nat.self_logits
        /\ UNCHANGED <<num_states, initial_logits, log_likelihoods, e_calls, emvars, hmmvars, ldsvars, fitvars, morevars>>

\* An M-step on uniform expected counts: both distributions become
\* Categorical(probs=uniform).
Refit ==
    LET uniform == CategoricalProbs(Ones(num_states)) IN
    /\ transition_logits # [i \in 1..num_states |-> uniform]
    /\ initial_logits' = uniform
    /\ transition_logits' = [i \in 1..num_states |-> uniform]
    /\ UNCHANGED <<num_states, log_likelihoods, e_calls, api_call, emvars, hmmvars, ldsvars, fitvars, morevars>>

NextInfer ==
    \/ NaturalParametersCall
    \/ TransitionLogProbsCall
    \/ EStepCall
    \/ MarginalLikelihoodCall
    \/ Refit

SpecInfer == InitInfer /\ [][NextInfer]_vars

IsProbabilityVector(v, K) ==
    /\ Len(v) = K
    /\ \A k \in 1..K : v[k][1] >= 0 /\ v[k][2] > 0
    /\ RSum(v) = One

\* C14 (as stated): natural_parameters and transition_log_probs return a log
\* transition matrix whose rows each sum to 1 in probability space, every row
\* being the raw row minus its log-sum-exp.
C14_RowsNormalized ==
    (api_call # <<>> /\ api_call[1].fn \in {"natural_parameters", "transition_log_probs"})
        => /\ api_call[1].matrix # <<>>
           /\ LET M   == api_call[1].matrix[1]
                  raw == api_call[1].raw
              IN  \A i \in 1..num_states :
                    /\ IsProbabilityVector(M[i], num_states)
                    /\ \A j \in 1..num_states :
                          M[i][j] = LogMinus(raw[i][j], logsumexp(raw[i]))

\* C15 (as stated): the log initial-state vector returned by natural_parameters
\* has length K and sums to 1 in probability space.
C15_InitialNormalized ==
    (api_call # <<>> /\ api_call[1].fn = "natural_parameters")
        => /\ api_call[1].value # <<>>
           /\ IsProbabilityVector(api_call[1].value[1], num_states)

\* C16: the expected occupancy of every e_step has one row per time step, and
\* every row is a probability vector over the K states.
C16_OccupancyIsDistribution ==
    \A c \in 1..Len(e_calls) :
        LET Ez == e_calls[c].posterior.expected_states IN
        /\ Len(Ez) = Len(e_calls[c].data)
        /\ \A t \in 1..Len(Ez) : IsProbabilityVector(Ez[t], num_states)

C16_Witness ==
    /\ e_calls # <<>>
    /\ num_states >= 2
    /\ Len(log_likelihoods) >= 2
    /\ Last(e_calls).posterior.expected_states[2][1] # Last(e_calls).posterior.expected_states[2][2]

\* C17: marginal_likelihood(dataset, posterior) returns the value stored in the
\* posterior, which is the log-sum-exp of the last forward message (and of the
\* first backward message joined with the initial term) under the natural
\* parameters the posterior was computed from.
C17_MarginalIsForwardFinal ==
    (api_call # <<>> /\ api_call[1].fn = "marginal_likelihood" /\ api_call[1].arg # <<>>)
        => LET c     == api_call[1].arg[1]
               log_A == NormalizeRows(c.transition)
               alpha == Forward(c.initial, log_A, c.data)
               beta  == Backward(log_A, c.data)
           IN  /\ api_call[1].value[1] = c.posterior.marginal_likelihood
               /\ api_call[1].value[1] = logsumexp(alpha[Len(c.data)])
               /\ api_call[1].value[1] =
                    logsumexp(Array([k \in 1..num_states |->
                        LogPlus(c.initial[k], LogPlus(c.data[1][k], beta[1][k]))]))

C17_Witness ==
    /\ api_call # <<>>
    /\ api_call[1].fn = "marginal_likelihood"
    /\ api_call[1].arg # <<>>
    /\ api_call[1].arg[1].transition # transition_logits
    /\ Len(log_likelihoods) >= 2
    /\ num_states >= 2

SameInputs(c1, c2) ==
    c1.initial = c2.initial /\ c1.transition = c2.transition /\ c1.data = c2.data

InitLDS ==
    /\ EmIdle
    /\ HMMIdle
    /\ InfIdle
    /\ FitIdle
    /\ lds_params \in LDSParams
    /\ \E y \in LDSObservations : lds_data = <<y>>
    /\ lds_call = <<>>
    /\ MoreIdle

\* one more time step of data
LDSObserve ==
    /\ Len(lds_data) < MaxLDSLen
    /\ \E y \in LDSObservations : lds_data' = Append(lds_data, y)
    /\ lds_call' = <<>>
    /\ UNCHANGED <<lds_params, emvars, hmmvars, infvars, fitvars, morevars>>

\* lds.natural_parameters(data)
LDSNaturalParametersCall ==
    /\ lds_call' = <<GaussianLDS_natural_parameters(lds_params, lds_data)>>
    /\ UNCHANGED <<lds_params, lds_data, emvars, hmmvars, infvars, fitvars, morevars>>

NextLDS == LDSObserve \/ LDSNaturalParametersCall

SpecLDS == InitLDS /\ [][NextLDS]_vars

\* C19: diagonal block t of GaussianLDS.natural_parameters is the observation
\* term, plus the initial precision iff t is the first step, plus A' Q^-1 A iff
\* t is not the last step, plus Q^-1 iff t is not the first step; the linear
\* potential follows the same pattern; there are T - 1 lower blocks; for T = 1
\* the result is the prior precision and potential plus the observation term.
C19_BlockPattern ==
    lds_call # <<>> =>
        LET T == Len(lds_data)
            p == lds_params
            r == lds_call[1]
            J_obs == p.C * p.Rinv * p.C
            h_obs(t) == (lds_data[t] - p.d) * p.Rinv * p.C
        IN  /\ T >= 1
            /\ Len(r.J_diag) = T
            /\ Len(r.h) = T
            /\ \A t \in 1..T :
                /\ r.J_diag[t] = J_obs
                                 + (IF t = 1 THEN p.Q1inv ELSE 0)
                                 + (IF t < T THEN p.A * p.Qinv * p.A ELSE 0)
                                 + (IF t > 1 THEN p.Qinv ELSE 0)
                /\ r.h[t] = h_obs(t)
                            + (IF t = 1 THEN p.Q1inv * p.m1 ELSE 0)
                            + (IF t < T THEN 0 - p.A * p.Qinv * p.b ELSE 0)
                            + (IF t > 1 THEN p.Qinv * p.b ELSE 0)
            /\ Len(r.J_lower_diag) = T - 1
            /\ \A t \in 1..(T - 1) : r.J_lower_diag[t] = 0 - p.Qinv * p.A
            /\ T = 1 => /\ r.J_diag = <<p.Q1inv + J_obs>>
                        /\ r.h = <<p.Q1inv * p.m1 + h_obs(1)>>
                        /\ r.J_lower_diag = <<>>

C19_Witness ==
    /\ lds_call # <<>>
    /\ Len(lds_data) = 1
    /\ lds_params.b = 1
    /\ lds_params.m1 = 1
    /\ lds_params.Qinv # lds_params.Q1inv

\* ---------------------------------------------------------------- fit calls
InitFit ==
    /\ EmIdle
    /\ HMMIdle
    /\ InfIdle
    /\ LDSIdle
    /\ fit_class \in FitClasses
    /\ fit_params = 0
    /\ fit_call = <<>>
    /\ MoreIdle

\* model.fit(dataset, method=..., key=..., initialization_method=...)
Fit ==
    /\ fit_params < MaxFits
    /\ \E method \in Methods, key \in Keys, initialization_method \in InitializationMethods :
        LET res == IF fit_class \in HMMClasses
                   THEN HMM_fit(fit_class, fit_params, method, key, initialization_method)
                   ELSE IF fit_class = "GaussianLDS"
                   THEN GaussianLDS_fit(fit_class, fit_params, method, key)
                   ELSE GaussianCTLDS_fit(fit_class, fit_params, method, key)
        IN
        \* only HMM.fit has an initialization_method
        /\ fit_class \in LDSClasses => initialization_method = "None"
        /\ fit_call' = <<[method |-> method, key |-> key,
                          initialization_method |-> initialization_method,
                          entry |-> fit_params, steps |-> res.steps, exc |-> res.exc]>>
        /\ fit_params' = res.params
    /\ UNCHANGED <<fit_class, emvars, hmmvars, infvars, ldsvars, morevars>>

NextFit == Fit

SpecFit == InitFit /\ [][NextFit]_vars

\* the calls the validation is to reject
Rejected(class, call) ==
    \/ call.method \notin Recognized(class)
    \/ class \in LDSClasses /\ call.method = "laplace_em" /\ call.key = "None"

\* C20 (as stated): a fit call with an unrecognized method, or with laplace_em
\* and no key on an LDS, raises before any initialization, E-step or M-step has
\* run and leaves the parameters as they were at entry.
C20_FailFast ==
    (fit_call # <<>> /\ Rejected(fit_class, fit_call[1]))
        => /\ fit_call[1].exc = "ValueError"
           /\ fit_call[1].steps = <<>>
           /\ fit_params = fit_call[1].entry

\* ---------------------------------------------------------------- constructors
CtorClasses == {"ssm.models.hmm.HMM", "ssm.hmm.models.HMM", "GaussianTWARHMM"}

\* Constructor arguments.  `defaults' says that the optional arguments (priors,
\* initial_state_probs, discrete_state_transition_matrix) are left to default.
CtorArgs ==
    [num_states : {-1, 1, 2},
     transition_shape : {<<1, 1>>, <<2, 2>>, <<1, 2>>},
     initial_is_categorical : BOOLEAN,
     transition_is_categorical : BOOLEAN,
     emissions_is_distribution : BOOLEAN,
     defaults : BOOLEAN]

\* GaussianTWARHMM takes arrays, from which it builds its distributions itself,
\* and builds the default transition matrix from num_discrete_states
Applicable(class, a) ==
    class = "GaussianTWARHMM" =>
        /\ a.initial_is_categorical /\ a.transition_is_categorical /\ a.emissions_is_distribution
        /\ (a.defaults /\ a.num_states >= 0) => a.transition_shape = <<a.num_states, a.num_states>>

\* the exception of each __init__, "none" when the object is constructed
models_hmm_HMM_init(a) ==
    IF ~a.initial_is_categorical THEN "AssertionError"
    ELSE IF ~a.transition_is_categorical THEN "AssertionError"
    ELSE IF ~a.transition_is_categorical THEN "AssertionError"
    ELSE "none"

hmm_models_HMM_init(a) ==
    IF a.defaults /\ a.num_states < 0 THEN "ValueError" ELSE "none"

GaussianTWARHMM_init(a) ==
    IF a.defaults
    THEN IF a.num_states < 0 THEN "ValueError" ELSE "none"
    ELSE IF a.transition_shape # <<a.num_states, a.num_states>> THEN "AssertionError"
    ELSE "none"

InitConstruct ==
    /\ EmIdle /\ HMMIdle /\ InfIdle /\ LDSIdle /\ FitIdle
    /\ CtorIdle /\ EmisIdle /\ TwIdle /\ NfeIdle /\ CtIdle /\ TiltIdle

Construct ==
    /\ \E class \in CtorClasses, a \in CtorArgs :
        /\ Applicable(class, a)
        /\ ctor_call' = <<[class |-> class, args |-> a,
                           exc |-> IF class = "ssm.models.hmm.HMM" THEN models_hmm_HMM_init(a)
                                   ELSE IF class = "ssm.hmm.models.HMM" THEN hmm_models_HMM_init(a)
                                   ELSE GaussianTWARHMM_init(a)]>>
    /\ extracted' = FALSE
    /\ UNCHANGED <<emvars, hmmvars, infvars, ldsvars, fitvars,
                   emisvars, twvars, nfevars, ctvars, tiltvars>>

\* natural_parameters / e_step on the object that was constructed
Extract ==
    /\ ctor_call # <<>>
    /\ ctor_call[1].exc = "none"
    /\ ~extracted
    /\ extracted' = TRUE
    /\ UNCHANGED <<ctor_call, emvars, hmmvars, infvars, ldsvars, fitvars,
                   emisvars, twvars, nfevars, ctvars, tiltvars>>

NextConstruct == Construct \/ Extract

SpecConstruct == InitConstruct /\ [][NextConstruct]_vars

ValidConfiguration(a) ==
    /\ a.num_states >= 0
    /\ a.transition_shape = <<a.num_states, a.num_states>>
    /\ a.initial_is_categorical
    /\ a.transition_is_categorical
    /\ a.emissions_is_distribution

\* C21 (as stated): a constructor call with an invalid configuration raises, so
\* that no extraction of natural parameters runs on such a model.
C21_InvalidRejected ==
    (ctor_call # <<>> /\ ~ValidConfiguration(ctor_call[1].args))
        => (ctor_call[1].exc # "none" /\ ~extracted)

\* ---------------------------------------------------------------- LDS emissions M-step
EmissionsClasses == {"Emissions", "PoissonEmissions", "GaussianEmissions"}
Rngs == {"None", "key1", "key2", "key3"}

\* Emissions.m_step(dataset, posteriors, rng): the new _distribution, the steps
\* run and the exception.  The distribution found depends on the sample, that
\* is on rng.
Emissions_m_stepSamplesFirst(dist, rng) ==
    IF rng = "None"
    THEN [distribution |-> dist, steps |-> <<"sample">>, exc |-> "ValueError"]
    ELSE [distribution |-> Append(dist, rng), steps |-> <<"sample", "minimize">>, exc |-> "none"]

Emissions_m_step(dist, rng) ==
    IF rng = "None"
    THEN [distribution |-> dist, steps |-> <<>>, exc |-> "ValueError"]
    ELSE [distribution |-> Append(dist, rng), steps |-> <<"sample", "minimize">>, exc |-> "none"]

\* PoissonEmissions.m_step(dataset, posteriors, rng)
PoissonEmissions_m_step(dist, rng) ==
    IF rng = "None"
    THEN [distribution |-> dist, steps |-> <<>>, exc |-> "ValueError"]
    ELSE [distribution |-> Append(dist, rng), steps |-> <<"sample", "minimize">>, exc |-> "none"]

\* GaussianEmissions.m_step(dataset, posteriors, rng): the exact update, rng is not used
GaussianEmissions_m_step(dist, rng) ==
    [distribution |-> Append(dist, "exact"), steps |-> <<"stats">>, exc |-> "none"]

InitEmissions ==
    /\ EmIdle /\ HMMIdle /\ InfIdle /\ LDSIdle /\ FitIdle
    /\ CtorIdle /\ TwIdle /\ NfeIdle /\ CtIdle /\ TiltIdle
    /\ emis_class \in EmissionsClasses
    /\ emis_distribution = <<>>
    /\ emis_call = <<>>

\* emissions.m_step(dataset, posteriors, rng=rng)
EmissionsMStep ==
    /\ Len(emis_distribution) < MaxEmissionSteps
    /\ \E rng \in Rngs :
        LET res == IF emis_class = "Emissions" THEN Emissions_m_step(emis_distribution, rng)
                   ELSE IF emis_class = "PoissonEmissions"
                   THEN PoissonEmissions_m_step(emis_distribution, rng)
                   ELSE GaussianEmissions_m_step(emis_distribution, rng)
        IN  /\ emis_call' = <<[rng |-> rng, entry |-> emis_distribution,
                               steps |-> res.steps, exc |-> res.exc]>>
            /\ emis_distribution' = res.distribution
    /\ UNCHANGED <<emis_class, emvars, hmmvars, infvars, ldsvars, fitvars,
                   ctorvars, twvars, nfevars, ctvars, tiltvars>>

NextEmissions == EmissionsMStep

SpecEmissions == InitEmissions /\ [][NextEmissions]_vars

\* C22: the generic emissions M-step called without a random key raises before
\* anything is sampled or optimized and leaves the emissions distribution as
\* it was.
C22_NoKeyFailsFirst ==
    (emis_call # <<>> /\ emis_class \in {"Emissions", "PoissonEmissions"}
                      /\ emis_call[1].rng = "None")
        => /\ emis_call[1].exc = "ValueError"
           /\ emis_call[1].steps = <<>>
           /\ emis_distribution = emis_call[1].entry

C22_Witness ==
    /\ emis_call # <<>>
    /\ emis_class = "PoissonEmissions"
    /\ emis_call[1].rng = "None"
    /\ Len(emis_distribution) >= 1

\* ---------------------------------------------------------------- GaussianTWARHMM.initialize
InitializeMethods == {"kmeans", "random", "KMeans", "bogus"}

\* method.lower()
Lower(method) == IF method = "KMeans" THEN "kmeans" ELSE method

\* the labels KMeans(num_discrete_states).fit_predict can return, reshaped to
\* (num_batches, num_timesteps)
Labels(shape) ==
    [1..shape.num_batches -> [1..shape.num_timesteps -> 1..shape.num_discrete_states]]

\* GaussianTWARHMM.initialize(dataset, key, method), with `labels' what KMeans
\* returns when it is run
GaussianTWARHMM_initialize(emissions, method, labels) ==
    IF Lower(method) = "kmeans"
    THEN [assignments |-> <<labels>>, emissions |-> emissions + 1, msteps |-> 1, exc |-> "none"]
    ELSE [assignments |-> <<>>, emissions |-> emissions, msteps |-> 0, exc |-> "ValueError"]

InitInitialize ==
    /\ EmIdle /\ HMMIdle /\ InfIdle /\ LDSIdle /\ FitIdle
    /\ CtorIdle /\ EmisIdle /\ NfeIdle /\ CtIdle /\ TiltIdle
    /\ tw_shape \in [num_discrete_states : 1..MaxStates, num_batches : {1, 2},
                     num_timesteps : 1..MaxSeqLen]
    /\ tw_emissions = 0
    /\ tw_call = <<>>

\* model.initialize(dataset, key, method=method)
TwInitialize ==
    /\ tw_emissions < MaxEmissionSteps
    /\ \E method \in InitializeMethods, labels \in Labels(tw_shape) :
        LET res == GaussianTWARHMM_initialize(tw_emissions, method, labels) IN
        /\ tw_call' = <<[method |-> method, assignments |-> res.assignments,
                         msteps |-> res.msteps, exc |-> res.exc]>>
        /\ tw_emissions' = res.emissions
    /\ UNCHANGED <<tw_shape, emvars, hmmvars, infvars, ldsvars, fitvars,
                   ctorvars, emisvars, nfevars, ctvars, tiltvars>>

NextInitialize == TwInitialize

SpecInitialize == InitInitialize /\ [][NextInitialize]_vars

\* C23 (as stated): initialize with "random" or with "kmeans" produces one
\* state assignment per time step and runs one emissions M-step; ValueError is
\* raised only for other methods.
C23_BothMethodsAccepted ==
    tw_call # <<>> =>
        /\ tw_call[1].method \in {"random", "kmeans"} =>
              /\ tw_call[1].exc = "none"
              /\ tw_call[1].assignments \in {<<l>> : l \in Labels(tw_shape)}
              /\ tw_call[1].msteps = 1
        /\ tw_call[1].exc = "ValueError" => tw_call[1].method \notin {"random", "kmeans"}

\* ---------------------------------------------------------------- NormalFactorialEmissions as a pytree
\* np.exp and np.log on scales: exp of a log-scale x is the scale "exp x", and
\* the log of a scale v that was not made by exp is the log-scale "log v"
Exp(x) == IF x[1] = "log" THEN <<"val", x[2]>> ELSE <<"exp", x>>
Log(v) == IF v[1] = "exp" THEN v[2] ELSE <<"log", v[2]>>

\* every num_states tuple and, for it, every tuple of per-group mean vectors
NumStatesTuples == UNION {[1..J -> {1, 2}] : J \in 1..MaxGroups}
MeansFor(ns) == {m \in [1..Len(ns) -> UNION {[1..K -> {0, 1}] : K \in {1, 2}}] :
                    \A j \in 1..Len(ns) : Len(m[j]) = ns[j]}

RECURSIVE SumMeans(_, _, _)
SumMeans(means, idx, j) ==
    IF j = 0 THEN 0 ELSE SumMeans(means, idx, j - 1) + means[j][idx[j]]

\* big_means: the array of shape num_states with entry sum_j means[j][k_j] at (k_1, ..., k_J)
BigMeans(ns, means) ==
    [idx \in {i \in [1..Len(ns) -> {1, 2}] : \A j \in 1..Len(ns) : i[j] <= ns[j]} |->
        SumMeans(means, idx, Len(ns))]

\* tfd.Normal(loc, scale)
Normal(loc, scale) == [loc |-> loc, scale |-> scale]

\* NormalFactorialEmissions(num_states, means, log_scale, emissions_distribution,
\* emissions_distribution_prior); <<>> stands for None
NormalFactorialEmissions(ns, means, log_scale, emissions_distribution, prior) ==
    [num_states    |-> ns,
     _means        |-> means,
     _distribution |-> IF means # <<>>
                       THEN <<Normal(BigMeans(ns, means[1]), Exp(log_scale))>>
                       ELSE emissions_distribution,
     _prior        |-> prior]

tree_flatten(obj) ==
    [children |-> <<obj._means, Log(obj._distribution[1].scale), obj._prior>>,
     aux_data |-> obj.num_states]

tree_unflatten(aux_data, children) ==
    NormalFactorialEmissions(aux_data, children[1], children[2], <<>>, children[3])

InitPytree ==
    /\ EmIdle /\ HMMIdle /\ InfIdle /\ LDSIdle /\ FitIdle
    /\ CtorIdle /\ EmisIdle /\ TwIdle /\ CtIdle /\ TiltIdle
    /\ \E ns \in NumStatesTuples, prior \in {<<>>, <<"prior">>} :
        \E means \in MeansFor(ns) :
            \/ \E n \in {0, 1} :
                 nfe = <<NormalFactorialEmissions(ns, <<means>>, <<"num", n>>, <<>>, prior)>>
            \/ \E v \in {1, 2} :
                 nfe = <<NormalFactorialEmissions(ns, <<>>, <<"num", 0>>,
                            <<Normal(BigMeans(ns, means), <<"val", v>>)>>, prior)>>
    /\ nfe_flat = <<>>
    /\ nfe_round = <<>>

\* children, aux_data = emissions.tree_flatten()
Flatten ==
    /\ nfe_flat' = <<tree_flatten(nfe[1])>>
    /\ UNCHANGED <<nfe, nfe_round, emvars, hmmvars, infvars, ldsvars, fitvars,
                   ctorvars, emisvars, twvars, ctvars, tiltvars>>

\* NormalFactorialEmissions.tree_unflatten(aux_data, children)
Unflatten ==
    /\ nfe_flat # <<>>
    /\ nfe_round' = <<tree_unflatten(nfe_flat[1].aux_data, nfe_flat[1].children)>>
    /\ UNCHANGED <<nfe, nfe_flat, emvars, hmmvars, infvars, ldsvars, fitvars,
                   ctorvars, emisvars, twvars, ctvars, tiltvars>>

NextPytree == Flatten \/ Unflatten

SpecPytree == InitPytree /\ [][NextPytree]_vars

\* C24 (as stated): tree_unflatten applied to the result of tree_flatten gives
\* an object with the same emissions distribution, num_states and prior,
\* however the object was constructed.
C24_FlattenRoundTrip ==
    nfe_round # <<>> =>
        /\ nfe_round[1]._distribution = nfe[1]._distribution
        /\ nfe_round[1].num_states = nfe[1].num_states
        /\ nfe_round[1]._prior = nfe[1]._prior

\* ---------------------------------------------------------------- GaussianCTLDS.e_step
\* self._dynamics.transition_params(covariate): the dynamics of the step the
\* covariate belongs to, (A_t, b_t, Q_t), Q_t held by its inverse
transition_params(covariate) == [A |-> covariate, b |-> 1, Qinv |-> covariate + 1]

\* arr.at[:-1].add(terms) and arr.at[1:].add(terms) for an array of terms
AddEachAllButLast(arr, terms) ==
    Array([t \in 1..Len(arr) |-> IF t <= Len(arr) - 1 THEN arr[t] + terms[t] ELSE arr[t]])
AddEachFromSecond(arr, terms) ==
    Array([t \in 1..Len(arr) |-> IF t >= 2 THEN arr[t] + terms[t - 1] ELSE arr[t]])

\* _energy_from_transition(covariate)
energy_from_transition(covariate) ==
    LET tp == transition_params(covariate) IN
    [J_diag_curr       |-> tp.A * tp.Qinv * tp.A,
     J_diag_next       |-> tp.Qinv,
     J_lower_diag_curr |-> 0 - tp.Qinv * tp.A,
     h_curr            |-> 0 - tp.A * tp.Qinv * tp.b,
     h_next            |-> tp.Qinv * tp.b]

\* The arrays GaussianCTLDS.e_step(data, covariates) hands to LDSPosterior.infer,
\* and the covariates it passed to transition_params.  `inputs' is the slice of
\* the covariates that is mapped over.
e_step_from(p, data, inputs) ==
    LET seq_len == Len(data)
        J_obs == Tile(p.C * p.Rinv * p.C, seq_len)
        J_init == AtFirst(J_obs, p.Q1inv)
        h_obs == Array([t \in 1..seq_len |-> (data[t] - p.d) * p.Rinv * p.C])
        h_init == AtFirst(h_obs, p.Q1inv * p.m1)
        energy_terms == Array([i \in 1..Len(inputs) |-> energy_from_transition(inputs[i])])
        term(name) == Array([i \in 1..Len(inputs) |-> energy_terms[i][name]])
    IN  [J_diag |-> AddEachFromSecond(AddEachAllButLast(J_init, term("J_diag_curr")),
                                      term("J_diag_next")),
         J_lower_diag |-> term("J_lower_diag_curr"),
         h |-> AddEachFromSecond(AddEachAllButLast(h_init, term("h_curr")), term("h_next")),
         transition_inputs |-> inputs]

GaussianCTLDS_e_stepFromFirst(p, data, covs) == e_step_from(p, data, SubSeq(covs, 1, Len(covs) - 1))

GaussianCTLDS_e_step(p, data, covs) == e_step_from(p, data, Tail(covs))

InitCTLDS ==
    /\ EmIdle /\ HMMIdle /\ InfIdle /\ FitIdle
    /\ CtorIdle /\ EmisIdle /\ TwIdle /\ NfeIdle /\ TiltIdle
    /\ lds_params \in {p \in LDSParams : p.A = 1 /\ p.b = 0 /\ p.Qinv = 1 /\ p.d = 0}
    /\ \E y \in LDSObservations : lds_data = <<y>>
    /\ lds_call = <<>>
    /\ \E u \in 1..MaxCoef : covariates = <<u>>
    /\ ct_call = <<>>

\* one more time step of data, with its covariate
CtObserve ==
    /\ Len(lds_data) < MaxLDSLen
    /\ \E y \in LDSObservations : lds_data' = Append(lds_data, y)
    /\ \E u \in 1..MaxCoef : covariates' = Append(covariates, u)
    /\ ct_call' = <<>>
    /\ UNCHANGED <<lds_params, lds_call, emvars, hmmvars, infvars, fitvars,
                   ctorvars, emisvars, twvars, nfevars, tiltvars>>

\* ctlds.e_step(data, covariates)
CtEStep ==
    /\ ct_call' = <<GaussianCTLDS_e_step(lds_params, lds_data, covariates)>>
    /\ UNCHANGED <<covariates, ldsvars, emvars, hmmvars, infvars, fitvars,
                   ctorvars, emisvars, twvars, nfevars, tiltvars>>

NextCTLDS == CtObserve \/ CtEStep

SpecCTLDS == InitCTLDS /\ [][NextCTLDS]_vars

\* C29: e_step builds T - 1 transition terms; the term that couples steps t and
\* t + 1 is computed from the covariate of step t + 1, the first covariate is
\* not used; it adds A' Q^-1 A to diagonal block t, Q^-1 to diagonal block
\* t + 1 and is lower block t; no block gets a term of a step that is not its
\* neighbour.
C29_TransitionTerms ==
    ct_call # <<>> =>
        LET T == Len(lds_data)
            p == lds_params
            r == ct_call[1]
            \* the dynamics of the term that couples steps t and t + 1 (steps from 1)
            tp(t) == transition_params(covariates[t + 1])
        IN  /\ Len(r.transition_inputs) = T - 1
            /\ \A t \in 1..(T - 1) : r.transition_inputs[t] = covariates[t + 1]
            /\ Len(r.J_lower_diag) = T - 1
            /\ \A t \in 1..(T - 1) : r.J_lower_diag[t] = 0 - tp(t).Qinv * tp(t).A
            /\ Len(r.J_diag) = T
            /\ Len(r.h) = T
            /\ \A t \in 1..T :
                /\ r.J_diag[t] = p.C * p.Rinv * p.C
                                 + (IF t = 1 THEN p.Q1inv ELSE 0)
                                 + (IF t < T THEN tp(t).A * tp(t).Qinv * tp(t).A ELSE 0)
                                 + (IF t > 1 THEN tp(t - 1).Qinv ELSE 0)
                /\ r.h[t] = (lds_data[t] - p.d) * p.Rinv * p.C
                            + (IF t = 1 THEN p.Q1inv * p.m1 ELSE 0)
                            + (IF t < T THEN 0 - tp(t).A * tp(t).Qinv * tp(t).b ELSE 0)
                            + (IF t > 1 THEN tp(t - 1).Qinv * tp(t - 1).b ELSE 0)

C29_Witness ==
    /\ ct_call # <<>>
    /\ Len(lds_data) = 3
    /\ covariates[1] # covariates[2]
    /\ covariates[2] # covariates[3]

\* ---------------------------------------------------------------- LdsSingleWindowTilt
window_length == 2

\* jax.lax.dynamic_slice(operand, (start, 0), (size, 1)) for an operand at least
\* `size' long: the start index is clamped so that the slice lies in the operand.
\* Index 0 of the code is index 1 here.
dynamic_slice(operand, start, size) ==
    LET last_start == Len(operand) - size
        clamped == IF start < 0 THEN 0 ELSE IF start > last_start THEN last_start ELSE start
    IN  Array([k \in 1..size |-> operand[clamped + k]])

\* LdsSingleWindowTilt._tilt_output_generator(dataset, model, particles, t)
tilt_output_generator(dataset, t) ==
    LET masked_idx == Array([k \in 1..window_length |-> k - 1])
        to_insert == Array([k \in 1..window_length |->
                               IF t + 1 + masked_idx[k] < Len(dataset) THEN 1 ELSE 0])
        clipped_dataset == dynamic_slice(dataset, t + 1, window_length)
        masked_dataset == Array([k \in 1..window_length |-> clipped_dataset[k] * to_insert[k]])
    IN  masked_dataset

TiltObservations == 0..MaxCoef

InitTilt ==
    /\ EmIdle /\ HMMIdle /\ InfIdle /\ LDSIdle /\ FitIdle
    /\ CtorIdle /\ EmisIdle /\ TwIdle /\ NfeIdle /\ CtIdle
    /\ tilt_dataset \in [1..window_length -> TiltObservations]
    /\ tilt_call = <<>>

\* one more observation in the dataset
TiltObserve ==
    /\ Len(tilt_dataset) < MaxTiltLen
    /\ \E y \in TiltObservations : tilt_dataset' = Append(tilt_dataset, y)
    /\ tilt_call' = <<>>
    /\ UNCHANGED <<emvars, hmmvars, infvars, ldsvars, fitvars,
                   ctorvars, emisvars, twvars, nfevars, ctvars>>

\* the tilt's inputs at step t of the sweep
TiltOutput ==
    /\ \E t \in 0..(Len(tilt_dataset) - 1) :
          tilt_call' = <<[t |-> t, tilt_outputs |-> tilt_output_generator(tilt_dataset, t)]>>
    /\ UNCHANGED <<tilt_dataset, emvars, hmmvars, infvars, ldsvars, fitvars,
                   ctorvars, emisvars, twvars, nfevars, ctvars>>

NextTilt == TiltObserve \/ TiltOutput

SpecTilt == InitTilt /\ [][NextTilt]_vars

\* C30: for a dataset of N >= 2 observations and every t in 0..N-1, element k
\* (k = 0, 1) of the window is dataset[t+1+k] when t+1+k < N and zero otherwise.
C30_WindowElements ==
    tilt_call # <<>> =>
        LET N == Len(tilt_dataset)
            t == tilt_call[1].t
            out == tilt_call[1].tilt_outputs
        IN  \A k \in 0..(window_length - 1) :
                out[k + 1] = IF t + 1 + k < N THEN tilt_dataset[t + 1 + k + 1] ELSE 0

====
